---- MODULE Spec2Model ----
(***************************************************************************)
(* Model of the threading subsystem of eml-reader:                         *)
(*   src/src/eml_reader/thread_analyzer.py  (EmailThreadAnalyzer,          *)
(*                                           ThreadManager)                *)
(*   src/src/eml_reader/eml_processor.py    (the record shape the          *)
(*                                           analyzer consumes)            *)
(*                                                                         *)
(* Python values are represented as follows.                               *)
(*   dict            a TLA+ function on the keys the dict holds; a key the *)
(*                   dict lacks is outside DOMAIN (see Get).               *)
(*   None / a value  None is <<>>, a non-None value v is <<v>> (Some(v)),  *)
(*                   for every field that may hold None.                   *)
(*   header text     a sequence of one-character strings, so that lower(), *)
(*                   strip(), startswith() and slicing are computed.       *)
(*   ids, addresses  TLA+ strings.                                         *)
(*   body text/html  a str is represented by its length: the code reads    *)
(*                   only len() and bool() of it.                          *)
(***************************************************************************)
EXTENDS Integers, Sequences, FiniteSets, TLC

VARIABLES
    threads,          \* ThreadManager.threads: thread_id -> list of entries
    thread_metadata,  \* ThreadManager.thread_metadata: thread_id -> dict
    now,              \* the wall clock read by datetime.now()
    result,           \* what the last ThreadManager call returned or raised
    input,            \* argument of the analyzer call under test
    output            \* what the analyzer call returned or raised

vars == <<threads, thread_metadata, now, result, input, output>>

(***************************************************************************)
(* Python primitives                                                       *)
(***************************************************************************)
None == <<>>
Some(v) == <<v>>

\* dict.get(key, default)
Get(d, key, default) == IF key \in DOMAIN d THEN d[key] ELSE default

\* the dict {key: value} when the key is given, {} otherwise
Field(key, opt) == IF opt = None THEN <<>> ELSE key :> opt[1]

Min(a, b) == IF a <= b THEN a ELSE b
Max(a, b) == IF a >= b THEN a ELSE b

\* str.lower() of one character
LowerChar(c) ==
    CASE c = "A" -> "a" [] c = "B" -> "b" [] c = "C" -> "c" [] c = "D" -> "d"
      [] c = "E" -> "e" [] c = "F" -> "f" [] c = "G" -> "g" [] c = "H" -> "h"
      [] c = "I" -> "i" [] c = "J" -> "j" [] c = "K" -> "k" [] c = "L" -> "l"
      [] c = "M" -> "m" [] c = "N" -> "n" [] c = "O" -> "o" [] c = "P" -> "p"
      [] c = "Q" -> "q" [] c = "R" -> "r" [] c = "S" -> "s" [] c = "T" -> "t"
      [] c = "U" -> "u" [] c = "V" -> "v" [] c = "W" -> "w" [] c = "X" -> "x"
      [] c = "Y" -> "y" [] c = "Z" -> "z"
      [] OTHER -> c

lower(s) == [i \in 1..Len(s) |-> LowerChar(s[i])]

IsSpace(c) == c = " "

RECURSIVE lstrip(_)
lstrip(s) == IF s # <<>> /\ IsSpace(Head(s)) THEN lstrip(Tail(s)) ELSE s

RECURSIVE rstrip(_)
rstrip(s) ==
    IF s # <<>> /\ IsSpace(s[Len(s)]) THEN rstrip(SubSeq(s, 1, Len(s) - 1)) ELSE s

strip(s) == rstrip(lstrip(s))

startswith(s, prefix) ==
    Len(s) >= Len(prefix) /\ SubSeq(s, 1, Len(prefix)) = prefix

\* s[n:]
SliceFrom(s, n) == SubSeq(s, n + 1, Len(s))

\* sub in s
Contains(s, sub) ==
    \E i \in 0..(Len(s) - Len(sub)) : SubSeq(s, i + 1, i + Len(sub)) = sub

\* the TLA+ string spelled by a sequence of characters
RECURSIVE Str(_)
Str(s) == IF s = <<>> THEN "" ELSE Head(s) \o Str(Tail(s))

(***************************************************************************)
(* EmailThreadAnalyzer: subject analysis                                   *)
(***************************************************************************)
re_ == <<"r", "e", ":">>
fw_ == <<"f", "w", ":">>
fwd_ == <<"f", "w", "d", ":">>
aw_ == <<"a", "w", ":">>

\* prefixes of _normalize_subject
NormalizePrefixes == <<re_, fw_, fwd_, aw_, fwd_, fwd_>>

\* prefixes of _count_subject_prefixes
CountPrefixes == <<re_, fw_, fwd_, aw_>>

\* the loop both functions run: one pass over the prefix list, stripping the
\* prefix under the cursor when the text starts with it
RECURSIVE StripLoop(_, _, _)
StripLoop(normalized, count, prefixes) ==
    IF prefixes = <<>>
    THEN [normalized |-> normalized, count |-> count]
    ELSE LET prefix == Head(prefixes)
         IN  IF startswith(normalized, prefix)
             THEN StripLoop(strip(SliceFrom(normalized, Len(prefix))),
                            count + 1, Tail(prefixes))
             ELSE StripLoop(normalized, count, Tail(prefixes))

_normalize_subject(subject) ==
    IF subject = <<>>
    THEN <<>>
    ELSE StripLoop(strip(lower(subject)), 0, NormalizePrefixes).normalized

_count_subject_prefixes(subject) ==
    IF subject = <<>>
    THEN 0
    ELSE StripLoop(strip(lower(subject)), 0, CountPrefixes).count

_is_thread_continuation(subject) ==
    IF subject = <<>>
    THEN FALSE
    ELSE LET normalized == strip(lower(subject))
         IN  startswith(normalized, re_) \/ startswith(normalized, aw_)

_detect_forward(subject) ==
    IF subject = <<>>
    THEN FALSE
    ELSE LET normalized == strip(lower(subject))
         IN  startswith(normalized, fw_) \/ startswith(normalized, fwd_)

_analyze_subject_thread(subject) ==
    [original |-> subject,
     normalized |-> _normalize_subject(subject),
     has_re_prefix |-> startswith(lower(subject), re_),
     has_fw_prefix |-> startswith(lower(subject), fw_)
                       \/ startswith(lower(subject), fwd_),
     has_aw_prefix |-> startswith(lower(subject), aw_),
     prefix_count |-> _count_subject_prefixes(subject),
     is_thread_continuation |-> _is_thread_continuation(subject)]

(***************************************************************************)
(* EmailThreadAnalyzer: thread identity                                    *)
(***************************************************************************)
EmptyDict == <<>>

\* bool(x) of a str-or-None
BoolStr(x) == x # None /\ x[1] # ""

\* hashlib.md5(text.encode("utf-8")).hexdigest()[:12], tabulated over the
\* texts the model hashes
Md5Hex12 ==
       "" :> "d41d8cd98f00" @@
       "a@x" :> "4895b1d4ed83" @@
       "aw: fwd: hi" :> "3f5ac0ca739e" @@
       "b@x" :> "205111a56270" @@
       "c@x" :> "68699ca3f8dd" @@
       "d@x" :> "d760431b6c1d" @@
       "fw: q" :> "e235f134426c" @@
       "fwd: hi" :> "4029a9a857fc" @@
       "hi" :> "49f68a5c8493" @@
       "q" :> "7694f4a66316" @@
       "re: hi" :> "dc75f66eede5" @@
       "re: re: hi" :> "1567229b1eb4" @@
       "re:hi" :> "857770ba2cc0"

_hash_string(text) == Md5Hex12[text]

\* _generate_thread_id taking the last reference instead of the first
_generate_thread_id_last_reference(eml_data) ==
    LET metadata == Get(eml_data, "metadata", EmptyDict)
        headers == Get(Get(eml_data, "headers", EmptyDict), "common", EmptyDict)
        references == Get(metadata, "references", <<>>)
    IN  IF BoolStr(Get(metadata, "in_reply_to", None))
        THEN "thread_" \o _hash_string(metadata["in_reply_to"][1])
        ELSE IF references # <<>>
        THEN "thread_" \o _hash_string(references[Len(references)])
        ELSE IF BoolStr(Get(metadata, "message_id", None))
        THEN "thread_" \o _hash_string(metadata["message_id"][1])
        ELSE "thread_" \o _hash_string(
                 Str(_normalize_subject(Get(headers, "subject", <<>>))))

\* _generate_thread_id testing References before In-Reply-To
_generate_thread_id_references_first(eml_data) ==
    LET metadata == Get(eml_data, "metadata", EmptyDict)
        headers == Get(Get(eml_data, "headers", EmptyDict), "common", EmptyDict)
    IN  IF Get(metadata, "references", None) # <<>>
        THEN "thread_" \o _hash_string(metadata["references"][1])
        ELSE IF BoolStr(Get(metadata, "in_reply_to", None))
        THEN "thread_" \o _hash_string(metadata["in_reply_to"][1])
        ELSE IF BoolStr(Get(metadata, "message_id", None))
        THEN "thread_" \o _hash_string(metadata["message_id"][1])
        ELSE "thread_" \o _hash_string(
                 Str(_normalize_subject(Get(headers, "subject", <<>>))))

\* _generate_thread_id hashing the subject without stripping its prefixes
_generate_thread_id_raw_subject(eml_data) ==
    LET metadata == Get(eml_data, "metadata", EmptyDict)
        headers == Get(Get(eml_data, "headers", EmptyDict), "common", EmptyDict)
    IN  IF BoolStr(Get(metadata, "in_reply_to", None))
        THEN "thread_" \o _hash_string(metadata["in_reply_to"][1])
        ELSE IF Get(metadata, "references", None) # <<>>
        THEN "thread_" \o _hash_string(metadata["references"][1])
        ELSE IF BoolStr(Get(metadata, "message_id", None))
        THEN "thread_" \o _hash_string(metadata["message_id"][1])
        ELSE "thread_" \o _hash_string(
                 Str(strip(lower(Get(headers, "subject", <<>>)))))

_generate_thread_id(eml_data) ==
    LET metadata == Get(eml_data, "metadata", EmptyDict)
        headers == Get(Get(eml_data, "headers", EmptyDict), "common", EmptyDict)
    IN  IF BoolStr(Get(metadata, "in_reply_to", None))
        THEN "thread_" \o _hash_string(metadata["in_reply_to"][1])
        ELSE IF Get(metadata, "references", None) # <<>>
        THEN "thread_" \o _hash_string(metadata["references"][1])
        ELSE IF BoolStr(Get(metadata, "message_id", None))
        THEN "thread_" \o _hash_string(metadata["message_id"][1])
        ELSE LET subject == Get(headers, "subject", <<>>)
                 normalized_subject == _normalize_subject(subject)
             IN  "thread_" \o _hash_string(Str(normalized_subject))

(***************************************************************************)
(* EmailThreadAnalyzer: depth, role, participants, engagement              *)
(***************************************************************************)
MaxDepth == 15

\* _calculate_thread_depth without the cap
_calculate_thread_depth_uncapped(metadata) ==
    LET references == Get(metadata, "references", <<>>)
        depth == Len(references)
    IN  depth

_calculate_thread_depth(metadata) ==
    LET references == Get(metadata, "references", <<>>)
        depth == Len(references)
    IN  Min(depth, MaxDepth)

_is_root_message(metadata) ==
    /\ ~BoolStr(Get(metadata, "in_reply_to", None))
    /\ Get(metadata, "references", None) = <<>>

\* The tokens of a header value that the e-mail pattern matches.
EmailAddresses == {"ann@acme.com", "bob@acme.com", "cy@corp.org", "Cy@Corp.org"}

\* the characters of an address
Spelling ==
    "ann@acme.com" :> <<"a", "n", "n", "@", "a", "c", "m", "e", ".", "c", "o", "m">> @@
    "bob@acme.com" :> <<"b", "o", "b", "@", "a", "c", "m", "e", ".", "c", "o", "m">> @@
    "cy@corp.org" :> <<"c", "y", "@", "c", "o", "r", "p", ".", "o", "r", "g">> @@
    "Cy@Corp.org" :> <<"C", "y", "@", "C", "o", "r", "p", ".", "o", "r", "g">>

\* a header value is the sequence of its tokens; re.findall keeps the tokens
\* that are addresses, set() removes the duplicates
_extract_email_addresses(header_value) ==
    IF header_value = <<>>
    THEN {}
    ELSE {header_value[i] : i \in 1..Len(header_value)} \cap EmailAddresses

AddressFields == <<"from", "to", "cc", "bcc">>
RecipientFields == <<"to", "cc", "bcc">>

_extract_thread_participants(headers) ==
    UNION {IF Get(headers, AddressFields[i], <<>>) # <<>>
           THEN _extract_email_addresses(headers[AddressFields[i]])
           ELSE {} : i \in 1..Len(AddressFields)}

_calculate_thread_position(metadata) == 1

RECURSIVE SumSeq(_)
SumSeq(s) == IF s = <<>> THEN 0 ELSE Head(s) + SumSeq(Tail(s))

LongContent == 1000
MediumContent == 500
ShortContent == 100
ManyRecipients == 10
SomeRecipients == 5
FewRecipients == 1
MaxScore == 100

\* _calculate_simple_engagement_score with a threshold value falling into the
\* band above it
_calculate_simple_engagement_score_inclusive(content_length, recipient_count, has_attachments) ==
    LET content == IF content_length >= LongContent THEN 40
                   ELSE IF content_length >= MediumContent THEN 30
                   ELSE IF content_length >= ShortContent THEN 20
                   ELSE 10
        recipients == IF recipient_count >= ManyRecipients THEN 30
                      ELSE IF recipient_count >= SomeRecipients THEN 20
                      ELSE IF recipient_count >= FewRecipients THEN 15
                      ELSE 10
        attachment == IF has_attachments THEN 30 ELSE 0
    IN  Min(content + recipients + attachment, MaxScore)

_calculate_simple_engagement_score(content_length, recipient_count, has_attachments) ==
    LET content == IF content_length > LongContent THEN 40
                   ELSE IF content_length > MediumContent THEN 30
                   ELSE IF content_length > ShortContent THEN 20
                   ELSE 10
        recipients == IF recipient_count > ManyRecipients THEN 30
                      ELSE IF recipient_count > SomeRecipients THEN 20
                      ELSE IF recipient_count > FewRecipients THEN 15
                      ELSE 10
        attachment == IF has_attachments THEN 30 ELSE 0
    IN  Min(content + recipients + attachment, MaxScore)

\* what a call gives back: a value, or the exception it raised
Returned(v) == [raised |-> FALSE, value |-> v]
Raised(e) == [raised |-> TRUE, error |-> e]

\* len(x) + len(y) of two str-or-None values raises TypeError on None
_calculate_engagement_indicators(eml_data) ==
    LET body == Get(eml_data, "body", EmptyDict)
        headers == Get(Get(eml_data, "headers", EmptyDict), "common", EmptyDict)
        text_content == Get(body, "text", Some(0))
        html_content == Get(body, "html", Some(0))
    IN  IF text_content = None \/ html_content = None
        THEN Raised("TypeError")
        ELSE LET total_content_length == text_content[1] + html_content[1]
                 recipient_count ==
                     SumSeq([i \in 1..Len(RecipientFields) |->
                         IF Get(headers, RecipientFields[i], <<>>) # <<>>
                         THEN Cardinality(_extract_email_addresses(
                                  headers[RecipientFields[i]]))
                         ELSE 0])
                 has_attachments == Get(eml_data, "attachments", <<>>) # <<>>
             IN  Returned(
                   [content_length |-> total_content_length,
                    recipient_count |-> recipient_count,
                    has_attachments |-> has_attachments,
                    has_html |-> html_content[1] # 0,
                    has_text |-> text_content[1] # 0,
                    engagement_score |-> _calculate_simple_engagement_score(
                        total_content_length, recipient_count,
                        has_attachments)])

analyze_thread(eml_data) ==
    LET metadata == Get(eml_data, "metadata", EmptyDict)
        headers == Get(Get(eml_data, "headers", EmptyDict), "common", EmptyDict)
        subject == Get(headers, "subject", <<>>)
        engagement == _calculate_engagement_indicators(eml_data)
    IN  IF engagement.raised
        THEN engagement
        ELSE Returned(
               [thread_id |-> _generate_thread_id(eml_data),
                message_id |-> Get(metadata, "message_id", None),
                in_reply_to |-> Get(metadata, "in_reply_to", None),
                references |-> Get(metadata, "references", <<>>),
                subject_thread |-> _analyze_subject_thread(subject),
                thread_depth |-> _calculate_thread_depth(metadata),
                is_reply |-> BoolStr(Get(metadata, "in_reply_to", None)),
                is_forward |-> _detect_forward(subject),
                is_root |-> _is_root_message(metadata),
                thread_participants |-> _extract_thread_participants(headers),
                thread_position |-> _calculate_thread_position(metadata),
                response_time |-> None,
                engagement_indicators |-> engagement.value])

(***************************************************************************)
(* Subjects the analyzer is run on: every concatenation of at most         *)
(* MaxPieces pieces.                                                       *)
(***************************************************************************)
MaxPieces == 4

QuarterlyReport ==
    <<"Q", "u", "a", "r", "t", "e", "r", "l", "y", " ",
      "R", "e", "p", "o", "r", "t">>

SubjectPieces ==
    { <<"R", "e", ":", " ">>, <<"R", "E", ":">>, <<"F", "w", ":", " ">>,
      <<"f", "w", "d", ":">>, <<"A", "w", ":", " ">>, <<" ">>,
      QuarterlyReport }

RECURSIVE SubjectsOfLen(_)
SubjectsOfLen(n) ==
    IF n = 0
    THEN {<<>>}
    ELSE {p \o s : p \in SubjectPieces, s \in SubjectsOfLen(n - 1)}

Subjects == UNION {SubjectsOfLen(n) : n \in 0..MaxPieces}

(***************************************************************************)
(* Registry state after construction (ThreadManager.__init__)              *)
(***************************************************************************)
StartOfTime == 1000
NoResult == [op |-> "none"]

InitRegistry ==
    /\ threads = EmptyDict
    /\ thread_metadata = EmptyDict
    /\ now = StartOfTime
    /\ result = NoResult

(***************************************************************************)
(* Specification SpecSubject: _analyze_subject_thread on every subject     *)
(***************************************************************************)
InitSubject ==
    /\ InitRegistry
    /\ input \in Subjects
    /\ output = None

AnalyzeSubjectThread ==
    /\ output = None
    /\ output' = Some(_analyze_subject_thread(input))
    /\ UNCHANGED <<threads, thread_metadata, now, result, input>>

NextSubject == AnalyzeSubjectThread

SpecSubject == InitSubject /\ [][NextSubject]_vars

(***************************************************************************)
(* Records (eml_data dicts) the analyzer is given.  A choice is NoKey (the *)
(* dict lacks the key) or Key(v) (the dict holds v under the key).         *)
(***************************************************************************)
NoKey == <<>>
Key(v) == <<v>>

SubjectHi == <<"H", "i">>
SubjectReHi == <<"R", "e", ":", " ", "H", "i">>
SubjectReReHi == <<"R", "e", ":", " ", "R", "e", ":", " ", "H", "i">>
SubjectREhi == <<"R", "E", ":", "h", "i", " ">>
SubjectFwQ == <<"F", "w", ":", " ", "Q">>
SubjectAtX == <<"a", "@", "x">>

\* _extract_headers stores a header only when its value is non-empty
SubjectChoices ==
    {NoKey, Key(SubjectHi), Key(SubjectReHi), Key(SubjectReReHi),
     Key(SubjectREhi), Key(SubjectFwQ), Key(SubjectAtX)}

\* _extract_metadata stores the header values with "<" and ">" stripped, so a
\* header "<>" is stored as the empty string
MessageIdChoices == {NoKey, Key(Some("")), Key(Some("a@x")), Key(Some("c@x"))}
InReplyToChoices == {NoKey, Key(Some("")), Key(Some("a@x")), Key(Some("b@x"))}
ReferencesChoices == {NoKey, Key(<<"b@x", "a@x">>)}

IdRecords ==
    {[headers |-> [common |-> Field("subject", s)],
      metadata |-> Field("message_id", m) @@ Field("in_reply_to", i)
                   @@ Field("references", r)] :
        s \in SubjectChoices, m \in MessageIdChoices,
        i \in InReplyToChoices, r \in ReferencesChoices}

(***************************************************************************)
(* Specification SpecThreadId: _generate_thread_id on two messages         *)
(***************************************************************************)
InitThreadId ==
    /\ InitRegistry
    /\ input \in IdRecords \X IdRecords
    /\ output = <<>>

GenerateThreadId ==
    /\ Len(output) < Len(input)
    /\ output' = Append(output, _generate_thread_id(input[Len(output) + 1]))
    /\ UNCHANGED <<threads, thread_metadata, now, result, input>>

NextThreadId == GenerateThreadId

SpecThreadId == InitThreadId /\ [][NextThreadId]_vars

(***************************************************************************)
(* Specification SpecAnalyze: analyze_thread on one record                 *)
(***************************************************************************)
\* _extract_body: "text" and "html" start as None and are set from the parts
\* the message has
BodyTextChoices == {NoKey, Key(None), Key(Some(0)), Key(Some(80)), Key(Some(1500))}
BodyHtmlChoices == {NoKey, Key(None), Key(Some(0)), Key(Some(600))}
AttachmentChoices == {NoKey, Key(<<>>), Key(<<"report.pdf">>)}
ToChoices == {NoKey, Key(<<"ann@acme.com", "Bob", "bob@acme.com", "ann@acme.com">>)}
CcChoices == {NoKey, Key(<<"cy@corp.org", "ann@acme.com">>)}

BodyDicts ==
    {Field("text", t) @@ Field("html", h) :
        t \in BodyTextChoices, h \in BodyHtmlChoices}

HeaderDicts ==
    {Field("subject", s) @@ Field("to", t) @@ Field("cc", c) :
        s \in {NoKey, Key(SubjectReHi)}, t \in ToChoices, c \in CcChoices}

MetadataDicts ==
    {Field("message_id", m) @@ Field("references", r) :
        m \in {NoKey, Key(Some("a@x"))}, r \in ReferencesChoices}

AnalyzeRecords ==
    {Field("headers", hs) @@ Field("body", b) @@ Field("attachments", a)
     @@ Field("metadata", md) :
        hs \in {NoKey} \cup {Key([common |-> h]) : h \in HeaderDicts},
        b \in {NoKey} \cup {Key(x) : x \in BodyDicts},
        a \in AttachmentChoices,
        md \in {NoKey} \cup {Key(x) : x \in MetadataDicts}}

InitAnalyze ==
    /\ InitRegistry
    /\ input \in AnalyzeRecords
    /\ output = None

AnalyzeThread ==
    /\ output = None
    /\ output' = Some(analyze_thread(input))
    /\ UNCHANGED <<threads, thread_metadata, now, result, input>>

NextAnalyze == AnalyzeThread

SpecAnalyze == InitAnalyze /\ [][NextAnalyze]_vars

(***************************************************************************)
(* ThreadManager: ingestion                                                *)
(***************************************************************************)
\* d[key] = value on a dict
Put(d, key, value) ==
    [k \in DOMAIN d \cup {key} |-> IF k = key THEN value ELSE d[k]]

\* the metadata add_email_to_thread gives a thread it creates
NewThreadMetadata(thread_analysis, clock) ==
    [created |-> clock,
     participants |-> {},
     subject |-> thread_analysis.subject_thread.normalized,
     message_count |-> 0,
     last_activity |-> None,
     root_message_id |-> None,
     max_depth |-> 0]

ThreadEntry(eml_data, thread_analysis, clock) ==
    [email_data |-> eml_data,
     thread_analysis |-> thread_analysis,
     added_at |-> clock]

\* _update_thread_metadata counting the entries the thread had before the
\* append
_update_thread_metadata_count_before(metadata, thread_emails, eml_data, thread_analysis, clock) ==
    [metadata EXCEPT
        !.message_count = Len(thread_emails) - 1,
        !.participants = @ \cup thread_analysis.thread_participants,
        !.last_activity = Some(clock),
        !.max_depth = Max(@, thread_analysis.thread_depth),
        !.root_message_id =
            IF thread_analysis.is_root
            THEN Get(Get(eml_data, "metadata", EmptyDict), "message_id", None)
            ELSE @]

\* _update_thread_metadata keeping the depth of the last message only
_update_thread_metadata_last_depth(metadata, thread_emails, eml_data, thread_analysis, clock) ==
    [metadata EXCEPT
        !.message_count = Len(thread_emails),
        !.participants = @ \cup thread_analysis.thread_participants,
        !.last_activity = Some(clock),
        !.max_depth = thread_analysis.thread_depth,
        !.root_message_id =
            IF thread_analysis.is_root
            THEN Get(Get(eml_data, "metadata", EmptyDict), "message_id", None)
            ELSE @]

\* _update_thread_metadata assigning the participants of the last message
_update_thread_metadata_assign_participants(metadata, thread_emails, eml_data, thread_analysis, clock) ==
    [metadata EXCEPT
        !.message_count = Len(thread_emails),
        !.participants = thread_analysis.thread_participants,
        !.last_activity = Some(clock),
        !.max_depth = Max(@, thread_analysis.thread_depth),
        !.root_message_id =
            IF thread_analysis.is_root
            THEN Get(Get(eml_data, "metadata", EmptyDict), "message_id", None)
            ELSE @]

\* _update_thread_metadata keeping the largest message Date as last_activity
_update_thread_metadata_max_date(metadata, thread_emails, eml_data, thread_analysis, clock) ==
    [metadata EXCEPT
        !.message_count = Len(thread_emails),
        !.participants = @ \cup thread_analysis.thread_participants,
        !.last_activity =
            LET date == Get(Get(eml_data, "metadata", EmptyDict),
                            "date_timestamp", None)
            IN  IF date = None
                THEN IF @ = None THEN Some(clock) ELSE @
                ELSE IF @ = None THEN date ELSE Some(Max(@[1], date[1])),
        !.max_depth = Max(@, thread_analysis.thread_depth),
        !.root_message_id =
            IF thread_analysis.is_root
            THEN Get(Get(eml_data, "metadata", EmptyDict), "message_id", None)
            ELSE @]

\* _update_thread_metadata storing the subject of the last message
_update_thread_metadata_latest_subject(metadata, thread_emails, eml_data, thread_analysis, clock) ==
    [metadata EXCEPT
        !.message_count = Len(thread_emails),
        !.participants = @ \cup thread_analysis.thread_participants,
        !.subject = thread_analysis.subject_thread.normalized,
        !.last_activity = Some(clock),
        !.max_depth = Max(@, thread_analysis.thread_depth),
        !.root_message_id =
            IF thread_analysis.is_root
            THEN Get(Get(eml_data, "metadata", EmptyDict), "message_id", None)
            ELSE @]

\* the thread's metadata dict after the update; thread_emails is
\* self.threads[thread_id], the new entry included
_update_thread_metadata(metadata, thread_emails, eml_data, thread_analysis, clock) ==
    [metadata EXCEPT
        !.message_count = Len(thread_emails),
        !.participants = @ \cup thread_analysis.thread_participants,
        !.last_activity = Some(clock),
        !.max_depth = Max(@, thread_analysis.thread_depth),
        !.root_message_id =
            IF thread_analysis.is_root
            THEN Get(Get(eml_data, "metadata", EmptyDict), "message_id", None)
            ELSE @]

(***************************************************************************)
(* ThreadManager: timeline                                                 *)
(***************************************************************************)
\* the sort key of get_thread_timeline: None, or Some(number)
SortKey(thread_entry) ==
    Get(Get(thread_entry.email_data, "metadata", EmptyDict),
        "date_timestamp", Some(0))

\* insertion of x after the elements whose key is not larger: sorted() is
\* stable
RECURSIVE InsertSorted(_, _)
InsertSorted(x, s) ==
    IF s = <<>>
    THEN <<x>>
    ELSE IF SortKey(x)[1] < SortKey(Head(s))[1]
         THEN <<x>> \o s
         ELSE <<Head(s)>> \o InsertSorted(x, Tail(s))

RECURSIVE StableSort(_)
StableSort(s) ==
    IF s = <<>>
    THEN <<>>
    ELSE InsertSorted(s[Len(s)], StableSort(SubSeq(s, 1, Len(s) - 1)))

\* list.sort() in place of sorted(): the stored list takes the sorted order
thread_emails_after_sort_in_place(thread_emails) ==
    IF Len(thread_emails) >= 2
       /\ \E i \in 1..Len(thread_emails) : SortKey(thread_emails[i]) = None
    THEN thread_emails
    ELSE StableSort(thread_emails)

\* the list self.threads[thread_id] once sorted(thread_emails, ...) has run:
\* sorted() builds a new list and leaves its argument as it was
thread_emails_after_sorted(thread_emails) == thread_emails

\* sorted() leaving the list in insertion order
sorted_insertion_order(thread_emails) ==
    IF Len(thread_emails) >= 2
       /\ \E i \in 1..Len(thread_emails) : SortKey(thread_emails[i]) = None
    THEN Raised("TypeError")
    ELSE Returned(thread_emails)

\* sorted(thread_emails, key=...): comparing None with anything raises
\* TypeError, and sorting two or more elements compares each of them
sorted(thread_emails) ==
    IF Len(thread_emails) >= 2
       /\ \E i \in 1..Len(thread_emails) : SortKey(thread_emails[i]) = None
    THEN Raised("TypeError")
    ELSE IF Len(thread_emails) <= 1
         THEN Returned(thread_emails)
         ELSE Returned(StableSort(thread_emails))

\* int(x / d) of a number x = num / den, for d > 0 and den > 0
TruncDiv(num, den) ==
    IF num >= 0 THEN num \div den ELSE -((-num) \div den)

Minute == 60
Hour == 3600
Day == 86400

\* _format_duration rounding to the nearest unit instead of truncating
_format_duration_rounded(num, den) ==
    IF num < Minute * den
    THEN ToString((2 * num + den) \div (2 * den)) \o "s"
    ELSE IF num < Hour * den
    THEN ToString((2 * num + Minute * den) \div (2 * Minute * den)) \o "m"
    ELSE IF num < Day * den
    THEN ToString((2 * num + Hour * den) \div (2 * Hour * den)) \o "h"
    ELSE ToString((2 * num + Day * den) \div (2 * Day * den)) \o "d"

\* _format_duration of the number num / den
_format_duration(num, den) ==
    IF num < Minute * den
    THEN ToString(TruncDiv(num, den)) \o "s"
    ELSE IF num < Hour * den
    THEN ToString(TruncDiv(num, Minute * den)) \o "m"
    ELSE IF num < Day * den
    THEN ToString(TruncDiv(num, Hour * den)) \o "h"
    ELSE ToString(TruncDiv(num, Day * den)) \o "d"

\* bool(x) of a number-or-None
BoolNum(x) == x # None /\ x[1] # 0

TimestampOf(thread_entry) ==
    Get(Get(thread_entry.email_data, "metadata", EmptyDict),
        "date_timestamp", None)

_calculate_response_time(sorted_emails, current_index) ==
    IF current_index = 1
    THEN None
    ELSE LET current_timestamp == TimestampOf(sorted_emails[current_index])
             previous_timestamp == TimestampOf(sorted_emails[current_index - 1])
         IN  IF ~BoolNum(current_timestamp) \/ ~BoolNum(previous_timestamp)
             THEN None
             ELSE LET response_seconds ==
                          current_timestamp[1] - previous_timestamp[1]
                  IN  Some([seconds |-> response_seconds,
                            formatted |-> _format_duration(response_seconds, 1),
                            is_quick |-> response_seconds < Hour,
                            is_same_day |-> response_seconds < Day])

\* the timeline list marking the first sorted entry as the root
TimelineEntries_first_is_root(sorted_emails) ==
    [i \in 1..Len(sorted_emails) |->
        [position |-> i,
         is_root |-> i = 1,
         is_latest |-> i = Len(sorted_emails),
         email_data |-> sorted_emails[i].email_data,
         thread_analysis |-> sorted_emails[i].thread_analysis,
         response_time |->
             IF i > 1 THEN _calculate_response_time(sorted_emails, i) ELSE None]]

\* the timeline list built from the sorted entries
TimelineEntries(sorted_emails) ==
    [i \in 1..Len(sorted_emails) |->
        [position |-> i,
         is_root |-> sorted_emails[i].thread_analysis.is_root,
         is_latest |-> i = Len(sorted_emails),
         email_data |-> sorted_emails[i].email_data,
         thread_analysis |-> sorted_emails[i].thread_analysis,
         response_time |->
             IF i > 1 THEN _calculate_response_time(sorted_emails, i) ELSE None]]

\* the timeline, or the exception sorted() raised
TimelineOf(sorted_emails) ==
    IF sorted_emails.raised
    THEN sorted_emails
    ELSE Returned(TimelineEntries(sorted_emails.value))

\* get_thread_timeline reading self.threads[thread_id] without the
\* membership test
get_thread_timeline_unchecked(thread_id) ==
    IF thread_id \notin DOMAIN threads
    THEN Raised("KeyError")
    ELSE TimelineOf(sorted(threads[thread_id]))

get_thread_timeline(thread_id) ==
    IF thread_id \notin DOMAIN threads
    THEN Returned(<<>>)
    ELSE TimelineOf(sorted(threads[thread_id]))

(***************************************************************************)
(* ThreadManager: summary                                                  *)
(***************************************************************************)
_calculate_activity_level(message_count, total_score) ==
    IF message_count >= 10 /\ total_score >= 70 * message_count
    THEN "very_active"
    ELSE IF message_count >= 5 /\ total_score >= 50 * message_count
    THEN "active"
    ELSE IF message_count >= 3
    THEN "moderate"
    ELSE IF message_count >= 1
    THEN "low"
    ELSE "inactive"

\* the score _calculate_thread_engagement reads for an entry: the record's
\* own "thread_analysis" key, not the entry's classification
RecordedScore(thread_entry) ==
    Get(Get(Get(thread_entry.email_data, "thread_analysis", EmptyDict),
            "engagement_indicators", EmptyDict),
        "engagement_score", 0)

\* round(total / count, 2), in hundredths; round() takes a tie to the even
\* neighbour
Round2(total, count) ==
    LET quotient == (100 * total) \div count
        remainder == (100 * total) % count
    IN  IF 2 * remainder < count THEN quotient
        ELSE IF 2 * remainder > count THEN quotient + 1
        ELSE IF quotient % 2 = 0 THEN quotient
        ELSE quotient + 1

\* the response times of the entries after the first, in list order
ResponseSeconds(thread_emails) ==
    LET times == [i \in 1..Len(thread_emails) |->
                     _calculate_response_time(thread_emails, i)]
    IN  SelectSeq([i \in 1..Len(times) |->
                      IF times[i] = None THEN None ELSE Some(times[i][1].seconds)],
                  LAMBDA t : t # None)

_calculate_thread_engagement(thread_emails) ==
    IF thread_emails = <<>>
    THEN [avg_engagement_score |-> 0,
          total_messages |-> 0,
          avg_response_time |-> None,
          activity_level |-> "inactive"]
    ELSE LET total_score ==
                 SumSeq([i \in 1..Len(thread_emails) |->
                            RecordedScore(thread_emails[i])])
             response_times == ResponseSeconds(thread_emails)
             total_time ==
                 SumSeq([i \in 1..Len(response_times) |-> response_times[i][1]])
         IN  [avg_engagement_score |-> Round2(total_score, Len(thread_emails)),
              total_messages |-> Len(thread_emails),
              avg_response_time |->
                  IF response_times # <<>> /\ total_time # 0
                  THEN Some(_format_duration(total_time, Len(response_times)))
                  ELSE None,
              activity_level |->
                  _calculate_activity_level(Len(thread_emails), total_score)]

\* the summary dict built from a thread's metadata and engagement
SummaryOf(thread_id, metadata, engagement) ==
    [thread_id |-> thread_id,
     message_count |-> metadata.message_count,
     participants |-> metadata.participants,
     subject |-> metadata.subject,
     created |-> metadata.created,
     last_activity |-> metadata.last_activity,
     max_depth |-> metadata.max_depth,
     root_message_id |-> metadata.root_message_id,
     engagement |-> engagement]

\* get_thread_summary taking a thread of one entry for an empty one
get_thread_summary_one_is_empty(thread_id) ==
    IF thread_id \notin DOMAIN threads
    THEN None
    ELSE IF Len(threads[thread_id]) <= 1
    THEN None
    ELSE Some(SummaryOf(thread_id, thread_metadata[thread_id],
                        _calculate_thread_engagement(threads[thread_id])))

get_thread_summary(thread_id) ==
    IF thread_id \notin DOMAIN threads
    THEN None
    ELSE IF threads[thread_id] = <<>>
    THEN None
    ELSE Some(SummaryOf(thread_id, thread_metadata[thread_id],
                        _calculate_thread_engagement(threads[thread_id])))

(***************************************************************************)
(* ThreadManager: search                                                   *)
(***************************************************************************)
\* "for thread_id in self.threads": a dict iterates its keys in the order
\* they were inserted, which is the order of the threads' creation times
RECURSIVE InsertionOrder(_, _)
InsertionOrder(ids, metadata) ==
    IF ids = {}
    THEN <<>>
    ELSE LET first == CHOOSE x \in ids :
                          \A y \in ids : metadata[x].created <= metadata[y].created
         IN  <<first>> \o InsertionOrder(ids \ {first}, metadata)

\* search_threads comparing the query as it is given
search_threads_case_sensitive(query, summaries) ==
    LET query_lower == query
        Found(summary) ==
            IF summary = None
            THEN <<>>
            ELSE IF Contains(lower(summary[1].subject), query_lower)
            THEN <<summary[1]>>
            ELSE IF \E participant \in summary[1].participants :
                        Contains(lower(Spelling[participant]), query_lower)
            THEN <<summary[1]>>
            ELSE <<>>
        RECURSIVE Collect(_)
        Collect(i) ==
            IF i > Len(summaries)
            THEN <<>>
            ELSE Found(summaries[i]) \o Collect(i + 1)
    IN  Collect(1)

\* search_threads, given the summaries of the threads in iteration order;
\* Found(summary) is what one iteration of the loop appends
search_threads(query, summaries) ==
    LET query_lower == lower(query)
        Found(summary) ==
            IF summary = None
            THEN <<>>
            ELSE IF Contains(lower(summary[1].subject), query_lower)
            THEN <<summary[1]>>
            ELSE IF \E participant \in summary[1].participants :
                        Contains(lower(Spelling[participant]), query_lower)
            THEN <<summary[1]>>
            ELSE <<>>
        RECURSIVE Collect(_)
        Collect(i) ==
            IF i > Len(summaries)
            THEN <<>>
            ELSE Found(summaries[i]) \o Collect(i + 1)
    IN  Collect(1)

\* the summaries search_threads computes, one per thread
AllSummaries(order) == [i \in 1..Len(order) |-> get_thread_summary(order[i])]

\* get_all_threads, given the summaries of the threads in iteration order:
\* the summaries that are not None
get_all_threads(summaries) ==
    LET present == SelectSeq(summaries, LAMBDA summary : summary # None)
    IN  [i \in 1..Len(present) |-> present[i][1]]

(***************************************************************************)
(* Specification Spec: a ThreadManager receiving calls                     *)
(***************************************************************************)
MaxMessages == 3

GoodBody == [text |-> Some(80), html |-> Some(0)]

DateChoices == {NoKey, Key(None), Key(Some(0)), Key(Some(250)), Key(Some(300))}

\* replies to a@x, with every kind of Date
ReplyEmails ==
    {[headers |-> [common |-> [subject |-> SubjectReHi,
                               from |-> <<"bob@acme.com">>,
                               to |-> <<"ann@acme.com">>,
                               cc |-> <<"cy@corp.org">>]],
      body |-> GoodBody,
      attachments |-> <<"report.pdf">>,
      metadata |-> [message_id |-> Some("b@x"), in_reply_to |-> Some("a@x"),
                    references |-> <<"a@x">>] @@ Field("date_timestamp", d)] :
        d \in DateChoices}

\* the message a@x the replies answer
RootEmails ==
    {[headers |-> [common |-> [subject |-> SubjectHi,
                               from |-> <<"ann@acme.com">>,
                               to |-> <<"bob@acme.com">>]],
      body |-> GoodBody,
      attachments |-> <<>>,
      metadata |-> [message_id |-> Some("a@x")] @@ Field("date_timestamp", d)] :
        d \in {Key(Some(100))}}

\* a message with no Message-ID, In-Reply-To or References whose subject
\* reads "a@x": its subject-derived thread_id is the one of the message a@x
SubjectIsIdEmails ==
    {[headers |-> [common |-> [subject |-> SubjectAtX,
                               from |-> <<"cy@corp.org">>,
                               to |-> <<"bob@acme.com">>]],
      body |-> GoodBody,
      attachments |-> <<>>,
      metadata |-> [date_timestamp |-> Some(300)]]}

\* messages with no Message-ID, In-Reply-To or References
SubjectOnlyEmails ==
    {[headers |-> [common |-> [subject |-> SubjectFwQ,
                               from |-> <<"Cy@Corp.org">>,
                               to |-> <<"ann@acme.com", "bob@acme.com">>]],
      body |-> [text |-> Some(1500), html |-> Some(600)],
      attachments |-> <<>>,
      metadata |-> Field("date_timestamp", d)] :
        d \in {Key(Some(300))}}

\* a text/plain message as _extract_body returns it: no HTML part
TextOnlyEmails ==
    {[headers |-> [common |-> [subject |-> SubjectHi,
                               from |-> <<"ann@acme.com">>]],
      body |-> [text |-> Some(80), html |-> None],
      attachments |-> <<>>,
      metadata |-> [message_id |-> Some("a@x"), date_timestamp |-> Some(100)]]}

Emails ==
    ReplyEmails \cup RootEmails \cup SubjectIsIdEmails \cup SubjectOnlyEmails
    \cup TextOnlyEmails

UnknownThreadId == "thread_000000000000"

\* the queries search_threads is called with
Queries ==
    {<<>>, <<"A", "C", "M", "E">>, <<"h", "i">>, <<"c", "o", "r", "p">>}

QueryIds == {"thread_4895b1d4ed83", "thread_7694f4a66316", UnknownThreadId}

RECURSIVE CountEntries(_)
CountEntries(ids) ==
    IF ids = {}
    THEN 0
    ELSE LET id == CHOOSE x \in ids : TRUE
         IN  Len(threads[id]) + CountEntries(ids \ {id})

\* the number of entries the registry holds
TotalMessages == CountEntries(DOMAIN threads)

Init ==
    /\ InitRegistry
    /\ input = None
    /\ output = None

\* the entry put in front of the list
append_at_front(thread_emails, thread_entry) == <<thread_entry>> \o thread_emails

\* self.threads[thread_id].append(thread_entry)
append(thread_emails, thread_entry) == Append(thread_emails, thread_entry)

\* the registry after the entry is appended and the metadata updated
Store(eml_data, thread_analysis, thread_id, thread_emails, metadata) ==
    /\ threads' = Put(threads, thread_id, thread_emails)
    /\ thread_metadata' =
           Put(thread_metadata, thread_id,
               _update_thread_metadata(metadata, thread_emails, eml_data,
                                       thread_analysis, now))
    /\ now' = now + 1
    /\ result' = [op |-> "add_email_to_thread", arg |-> eml_data,
                  raised |-> FALSE, value |-> thread_id]

\* add_email_to_thread once analyze_thread has returned or raised
Ingest(eml_data, analysis) ==
    IF analysis.raised
    THEN /\ result' = [op |-> "add_email_to_thread", arg |-> eml_data,
                       raised |-> TRUE, error |-> analysis.error]
         /\ UNCHANGED <<threads, thread_metadata, now>>
    ELSE Store(eml_data, analysis.value, analysis.value.thread_id,
               append(IF analysis.value.thread_id \in DOMAIN threads
                      THEN threads[analysis.value.thread_id]
                      ELSE <<>>,
                      ThreadEntry(eml_data, analysis.value, now)),
               IF analysis.value.thread_id \in DOMAIN threads
               THEN thread_metadata[analysis.value.thread_id]
               ELSE NewThreadMetadata(analysis.value, now))

\* ThreadManager.add_email_to_thread(eml_data)
AddEmailToThread(eml_data) ==
    /\ TotalMessages < MaxMessages
    /\ Ingest(eml_data, analyze_thread(eml_data))
    /\ UNCHANGED <<input, output>>

\* ThreadManager.get_thread_summary(thread_id)
GetThreadSummary(thread_id) ==
    /\ result' = [op |-> "get_thread_summary", arg |-> thread_id,
                  raised |-> FALSE, value |-> get_thread_summary(thread_id)]
    /\ UNCHANGED <<threads, thread_metadata, now, input, output>>

\* the outcome of a get_thread_timeline call
TimelineResult(thread_id, timeline) ==
    IF timeline.raised
    THEN [op |-> "get_thread_timeline", arg |-> thread_id,
          raised |-> TRUE, error |-> timeline.error]
    ELSE [op |-> "get_thread_timeline", arg |-> thread_id,
          raised |-> FALSE, value |-> timeline.value]

\* ThreadManager.get_thread_timeline(thread_id)
GetThreadTimeline(thread_id) ==
    /\ result' = TimelineResult(thread_id, get_thread_timeline(thread_id))
    /\ threads' = IF thread_id \in DOMAIN threads
                  THEN [threads EXCEPT
                           ![thread_id] = thread_emails_after_sorted(@)]
                  ELSE threads
    /\ UNCHANGED <<thread_metadata, now, input, output>>

\* ThreadManager.search_threads(query)
SearchThreads(query) ==
    /\ result' = [op |-> "search_threads", arg |-> query, raised |-> FALSE,
                  value |-> search_threads(query, AllSummaries(
                      InsertionOrder(DOMAIN threads, thread_metadata)))]
    /\ UNCHANGED <<threads, thread_metadata, now, input, output>>

\* ThreadManager.get_all_threads()
GetAllThreads ==
    /\ result' = [op |-> "get_all_threads", arg |-> None, raised |-> FALSE,
                  value |-> get_all_threads(AllSummaries(
                      InsertionOrder(DOMAIN threads, thread_metadata)))]
    /\ UNCHANGED <<threads, thread_metadata, now, input, output>>

Next ==
    \/ \E eml_data \in Emails : AddEmailToThread(eml_data)
    \/ \E thread_id \in QueryIds : GetThreadSummary(thread_id)
    \/ \E thread_id \in QueryIds : GetThreadTimeline(thread_id)
    \/ \E query \in Queries : SearchThreads(query)
    \/ GetAllThreads

Spec == Init /\ [][Next]_vars

(***************************************************************************)
(* EMLProcessor: parse_eml_content                                         *)
(*                                                                         *)
(* A content is described by its Python type and, when it is text, by what *)
(* the extraction methods read from it: the headers, body, attachments and *)
(* metadata of the message and the length of its serialization.            *)
(***************************************************************************)
\* email.message_from_string / email.message_from_bytes: a content that is
\* neither str nor bytes raises
message_from(content) ==
    IF content.type \in {"str", "bytes"}
    THEN Returned(content.message)
    ELSE Raised("TypeError")

\* the base email_data dict of _extract_email_data
BaseEmailData(content) == content.message @@ [raw_size |-> content.raw_size]

\* ThreadManager.add_email_to_thread on the registry given, once
\* analyze_thread has returned thread_analysis: the thread is created if it
\* is new, the entry appended and the metadata updated
RegistryAfterAdd(registry, eml_data, thread_analysis, clock) ==
    LET thread_id == thread_analysis.thread_id
        known == thread_id \in DOMAIN registry.threads
        thread_emails ==
            append(IF known THEN registry.threads[thread_id] ELSE <<>>,
                   ThreadEntry(eml_data, thread_analysis, clock))
        metadata == IF known
                    THEN registry.thread_metadata[thread_id]
                    ELSE NewThreadMetadata(thread_analysis, clock)
    IN  [threads |-> Put(registry.threads, thread_id, thread_emails),
         thread_metadata |->
             Put(registry.thread_metadata, thread_id,
                 _update_thread_metadata(metadata, thread_emails, eml_data,
                                         thread_analysis, clock))]

\* email_data["thread_id"] = thread_id: the entry just stored holds the same
\* dict, so the key shows in the registry too
RegistryAfterLabel(registry, thread_id, email_data) ==
    [registry EXCEPT
        !.threads[thread_id][Len(registry.threads[thread_id])].email_data =
            email_data]

\* _extract_email_data creating the thread before the record is classified
_extract_email_data_create_first(content, registry, clock) ==
    LET email_data == BaseEmailData(content)
        thread_analysis == analyze_thread(email_data)
        thread_id == _generate_thread_id(email_data)
    IN  IF thread_analysis.raised
        THEN [raised |-> TRUE, error |-> thread_analysis.error,
              registry |->
                  IF thread_id \in DOMAIN registry.threads
                  THEN registry
                  ELSE [threads |-> Put(registry.threads, thread_id, <<>>),
                        thread_metadata |->
                            Put(registry.thread_metadata, thread_id,
                                [created |-> clock, participants |-> {},
                                 subject |-> <<>>, message_count |-> 0,
                                 last_activity |-> None,
                                 root_message_id |-> None, max_depth |-> 0])]]
        ELSE LET classified ==
                     email_data @@ [thread_analysis |-> thread_analysis.value]
                 returned == classified @@ [thread_id |-> thread_id]
             IN  [raised |-> FALSE, value |-> returned,
                  registry |->
                      RegistryAfterLabel(
                          RegistryAfterAdd(registry, classified,
                                           analyze_thread(classified).value,
                                           clock),
                          thread_id, returned)]

\* _extract_email_data: the record is classified, labelled with the
\* classification, added to the registry (which classifies it again) and
\* labelled with the thread_id
_extract_email_data(content, registry, clock) ==
    LET email_data == BaseEmailData(content)
        thread_analysis == analyze_thread(email_data)
    IN  IF thread_analysis.raised
        THEN [raised |-> TRUE, error |-> thread_analysis.error,
              registry |-> registry]
        ELSE LET classified ==
                     email_data @@ [thread_analysis |-> thread_analysis.value]
                 added == analyze_thread(classified)
             IN  IF added.raised
                 THEN [raised |-> TRUE, error |-> added.error,
                       registry |-> registry]
                 ELSE LET returned ==
                              classified @@ [thread_id |-> added.value.thread_id]
                      IN  [raised |-> FALSE, value |-> returned,
                           registry |->
                               RegistryAfterLabel(
                                   RegistryAfterAdd(registry, classified,
                                                    added.value, clock),
                                   added.value.thread_id, returned)]

\* parse_eml_content: every exception leaves as ValueError
parse_eml_content(content, registry, clock) ==
    IF message_from(content).raised
    THEN [raised |-> TRUE, error |-> "ValueError", registry |-> registry]
    ELSE IF _extract_email_data(content, registry, clock).raised
    THEN [raised |-> TRUE, error |-> "ValueError",
          registry |-> _extract_email_data(content, registry, clock).registry]
    ELSE _extract_email_data(content, registry, clock)

(***************************************************************************)
(* Specification SpecProcessor: an EMLProcessor parsing contents           *)
(***************************************************************************)
\* a multipart message as the extraction methods read it
MultipartMessages ==
    {r \in ReplyEmails : Get(r.metadata, "date_timestamp", None) # Some(0)}
    \cup RootEmails \cup SubjectIsIdEmails \cup SubjectOnlyEmails

Contents ==
    {[type |-> "int"], [type |-> "list"]}
    \cup {[type |-> t, message |-> m, raw_size |-> 400] :
             t \in {"str", "bytes"}, m \in MultipartMessages}
    \cup {[type |-> "str", message |-> m, raw_size |-> 200] :
             m \in TextOnlyEmails}

\* the state after a parse_eml_content call with the outcome given
Parsed(content, outcome) ==
    /\ threads' = outcome.registry.threads
    /\ thread_metadata' = outcome.registry.thread_metadata
    /\ now' = IF outcome.raised THEN now ELSE now + 1
    /\ result' = IF outcome.raised
                 THEN [op |-> "parse_eml_content", arg |-> content,
                       raised |-> TRUE, error |-> outcome.error]
                 ELSE [op |-> "parse_eml_content", arg |-> content,
                       raised |-> FALSE, value |-> outcome.value]

\* EMLProcessor.parse_eml_content(content)
ParseEmlContent(content) ==
    /\ TotalMessages < MaxMessages
    /\ Parsed(content,
              parse_eml_content(content,
                                [threads |-> threads,
                                 thread_metadata |-> thread_metadata],
                                now))
    /\ UNCHANGED <<input, output>>

NextProcessor == \E content \in Contents : ParseEmlContent(content)

SpecProcessor == Init /\ [][NextProcessor]_vars

(***************************************************************************)
(* Specification SpecServer: the aiohttp application serving /api/process  *)
(* and /api/threads requests on one event loop.  A handler is a coroutine: *)
(* once the loop runs it, it runs until it awaits or returns, and the loop *)
(* runs no other handler meanwhile.  The position of each request's        *)
(* handler is kept, and the handler is run one statement group at a time.  *)
(***************************************************************************)
MaxRequests == 3
Requests == 1..MaxRequests

\* what a request body can hold: nothing, a value that is not text, a
\* message without an HTML part, and multipart messages of two threads
ServerContents ==
    {[type |-> "str", empty |-> TRUE], [type |-> "int", empty |-> FALSE]}
    \cup {[type |-> "str", empty |-> FALSE, message |-> m, raw_size |-> 400] :
             m \in RootEmails \cup SubjectOnlyEmails
                   \cup {r \in ReplyEmails :
                            Get(r.metadata, "date_timestamp", None) = Some(250)}}
    \cup {[type |-> "str", empty |-> FALSE, message |-> m, raw_size |-> 200] :
             m \in TextOnlyEmails}

\* a handler suspended during the ingest, as it would be if
\* _update_thread_metadata were awaited
Awaits_during_ingest == {"request.json", "_update_thread_metadata"}

\* the positions at which _handle_api_process_eml is suspended: it awaits
\* the request body and nothing else
Awaits == {"request.json"}

\* the positions at which a handler is not on the event loop
Suspended == Awaits \cup {"idle", "done"}

\* the event loop can run the handler of request r: no other handler is in
\* the middle of a run
LoopFree(r) == \A q \in Requests \ {r} : input[q].pc \in Suspended

InitServer ==
    /\ InitRegistry
    /\ input = [r \in Requests |-> [pc |-> "idle"]]
    /\ output = [r \in Requests |-> None]

\* a POST /api/process arrives: the handler runs up to "await request.json()"
Arrive(r) ==
    /\ input[r].pc = "idle"
    /\ LoopFree(r)
    /\ input' = [input EXCEPT ![r] = [pc |-> "request.json"]]
    /\ UNCHANGED <<threads, thread_metadata, now, result, output>>

\* the body has arrived and the loop resumes the handler: an empty
\* eml_content is answered with 400 at once
ReadBody(r, content) ==
    /\ input[r].pc = "request.json"
    /\ LoopFree(r)
    /\ IF content.empty
       THEN /\ input' = [input EXCEPT ![r] = [pc |-> "done"]]
            /\ output' = [output EXCEPT ![r] = Some([status |-> 400])]
       ELSE /\ input' = [input EXCEPT
                            ![r] = [pc |-> "parse_eml_content",
                                    content |-> content]]
            /\ UNCHANGED output
    /\ UNCHANGED <<threads, thread_metadata, now, result>>

\* the state after the handler has parsed and classified the content
Classified(r, content, thread_analysis) ==
    IF message_from(content).raised \/ thread_analysis.raised
    THEN /\ input' = [input EXCEPT ![r] = [pc |-> "done"]]
         /\ output' = [output EXCEPT ![r] = Some([status |-> 400])]
    ELSE /\ input' = [input EXCEPT
                         ![r] = [pc |-> "add_email_to_thread",
                                 email_data |->
                                     BaseEmailData(content)
                                     @@ [thread_analysis |-> thread_analysis.value]]]
         /\ UNCHANGED output

\* parse_eml_content up to email_data["thread_analysis"] = thread_analysis;
\* a ValueError is answered with 400
Classify(r) ==
    /\ input[r].pc = "parse_eml_content"
    /\ LoopFree(r)
    /\ Classified(r, input[r].content,
                  IF message_from(input[r].content).raised
                  THEN message_from(input[r].content)
                  ELSE analyze_thread(BaseEmailData(input[r].content)))
    /\ UNCHANGED <<threads, thread_metadata, now, result>>

\* the state after add_email_to_thread has appended the entry
Entered(r, eml_data, thread_analysis, thread_id, thread_emails) ==
    /\ threads' = Put(threads, thread_id,
                      append(thread_emails,
                             ThreadEntry(eml_data, thread_analysis, now)))
    /\ thread_metadata' =
           IF thread_id \in DOMAIN threads
           THEN thread_metadata
           ELSE Put(thread_metadata, thread_id,
                    NewThreadMetadata(thread_analysis, now))
    /\ input' = [input EXCEPT
                    ![r] = [pc |-> "_update_thread_metadata",
                            email_data |-> eml_data,
                            thread_analysis |-> thread_analysis,
                            index |-> Len(thread_emails) + 1]]

\* add_email_to_thread up to the append: the record is classified again,
\* the thread created if it is new, the entry appended
AppendEntry(r) ==
    /\ input[r].pc = "add_email_to_thread"
    /\ LoopFree(r)
    /\ Entered(r, input[r].email_data,
               analyze_thread(input[r].email_data).value,
               analyze_thread(input[r].email_data).value.thread_id,
               IF analyze_thread(input[r].email_data).value.thread_id
                      \in DOMAIN threads
               THEN threads[analyze_thread(input[r].email_data).value.thread_id]
               ELSE <<>>)
    /\ UNCHANGED <<now, result, output>>

\* self._update_thread_metadata(thread_id, eml_data, thread_analysis)
UpdateMetadata(r) ==
    /\ input[r].pc = "_update_thread_metadata"
    /\ LoopFree(r)
    /\ thread_metadata' =
           [thread_metadata EXCEPT
               ![input[r].thread_analysis.thread_id] =
                   _update_thread_metadata(
                       @, threads[input[r].thread_analysis.thread_id],
                       input[r].email_data, input[r].thread_analysis, now)]
    /\ now' = now + 1
    /\ input' = [input EXCEPT ![r].pc = "json_response"]
    /\ UNCHANGED <<threads, result, output>>

\* email_data["thread_id"] = thread_id, which shows in the stored entry, and
\* the response with the record
Respond(r) ==
    /\ input[r].pc = "json_response"
    /\ LoopFree(r)
    /\ threads' =
           [threads EXCEPT
               ![input[r].thread_analysis.thread_id][input[r].index].email_data =
                   input[r].email_data
                   @@ [thread_id |-> input[r].thread_analysis.thread_id]]
    /\ output' = [output EXCEPT
                     ![r] = Some([status |-> 200,
                                  thread_id |->
                                      input[r].thread_analysis.thread_id])]
    /\ input' = [input EXCEPT ![r] = [pc |-> "done"]]
    /\ UNCHANGED <<thread_metadata, now, result>>

\* GET /api/threads: the handler runs get_all_threads without awaiting
HandleApiThreads ==
    /\ \A q \in Requests : input[q].pc \in Suspended
    /\ DOMAIN threads # {}
    /\ result' = [op |-> "get_all_threads", arg |-> None, raised |-> FALSE,
                  value |-> get_all_threads(AllSummaries(
                      InsertionOrder(DOMAIN threads, thread_metadata)))]
    /\ UNCHANGED <<threads, thread_metadata, now, input, output>>

NextServer ==
    \/ \E r \in Requests : Arrive(r)
    \/ \E r \in Requests, content \in ServerContents : ReadBody(r, content)
    \/ \E r \in Requests : Classify(r)
    \/ \E r \in Requests : AppendEntry(r)
    \/ \E r \in Requests : UpdateMetadata(r)
    \/ \E r \in Requests : Respond(r)
    \/ HandleApiThreads

SpecServer == InitServer /\ [][NextServer]_vars

(***************************************************************************)
(* Specification SpecScore: _calculate_simple_engagement_score on every    *)
(* content length around the thresholds, every recipient count up to       *)
(* MaxRecipients, with and without attachments                             *)
(***************************************************************************)
MaxRecipients == 12

ContentLengths == {0, 100, 101, 500, 501, 1000, 1001, 1500}

ScoreInputs ==
    [content_length : ContentLengths,
     recipient_count : 0..MaxRecipients,
     has_attachments : BOOLEAN]

InitScore ==
    /\ InitRegistry
    /\ input \in ScoreInputs
    /\ output = None

CalculateSimpleEngagementScore ==
    /\ output = None
    /\ output' = Some(_calculate_simple_engagement_score(
                      input.content_length, input.recipient_count,
                      input.has_attachments))
    /\ UNCHANGED <<threads, thread_metadata, now, result, input>>

NextScore == CalculateSimpleEngagementScore

SpecScore == InitScore /\ [][NextScore]_vars

(***************************************************************************)
(* Specification SpecDepth: _calculate_thread_depth on metadata with up to *)
(* MaxReferences references                                                *)
(***************************************************************************)
MaxReferences == 20

ReferenceIds == {"a@x", "b@x", "c@x"}

\* _extract_metadata: the References header split at white space
ReferenceLists ==
    {[i \in 1..n |-> id] : n \in 0..MaxReferences, id \in ReferenceIds}

DepthMetadata ==
    {Field("references", r) @@ Field("message_id", m) :
        r \in {NoKey} \cup {Key(x) : x \in ReferenceLists},
        m \in {NoKey, Key(Some("d@x"))}}

InitDepth ==
    /\ InitRegistry
    /\ input \in DepthMetadata
    /\ output = None

CalculateThreadDepth ==
    /\ output = None
    /\ output' = Some(_calculate_thread_depth(input))
    /\ UNCHANGED <<threads, thread_metadata, now, result, input>>

NextDepth == CalculateThreadDepth

SpecDepth == InitDepth /\ [][NextDepth]_vars

(***************************************************************************)
(* Specification SpecDuration: _format_duration on the durations num / den *)
(* seconds: every whole and half second up to MaxSeconds, and the values   *)
(* around an hour, a day and two days                                      *)
(***************************************************************************)
MaxSeconds == 150

DurationInputs ==
    {[num |-> n, den |-> d] :
        n \in (0..MaxSeconds) \cup {3599, 3600, 3601, 7199, 7200, 86399, 86400,
                                   86401, 172799, 172800},
        d \in {1, 2}}

InitDuration ==
    /\ InitRegistry
    /\ input \in DurationInputs
    /\ output = None

FormatDuration ==
    /\ output = None
    /\ output' = Some(_format_duration(input.num, input.den))
    /\ UNCHANGED <<threads, thread_metadata, now, result, input>>

NextDuration == FormatDuration

SpecDuration == InitDuration /\ [][NextDuration]_vars

(***************************************************************************)
(* Claims about the registry (Spec)                                        *)
(***************************************************************************)
\* the number of add_email_to_thread calls that have returned
Ingested == now - StartOfTime

\* C1: for every known thread, message_count equals the length of the
\* thread's entry list; N ingests into one thread of an empty registry give
\* message_count = N.
C1_MessageCountIsLength ==
    /\ DOMAIN thread_metadata = DOMAIN threads
    /\ \A thread_id \in DOMAIN threads :
           /\ thread_metadata[thread_id].message_count = Len(threads[thread_id])
           /\ DOMAIN threads = {thread_id}
                  => thread_metadata[thread_id].message_count = Ingested

\* three messages have been ingested into the one thread of a@x
C1_Witness ==
    /\ DOMAIN threads = {"thread_4895b1d4ed83"}
    /\ Len(threads["thread_4895b1d4ed83"]) = 3
    /\ Ingested = 3

Added == result.op = "add_email_to_thread" /\ ~result.raised

\* C2: right after an ingest that returned thread_id, get_thread_summary of
\* that id is not None and carries that id.
C2_SummaryAfterIngest ==
    Added =>
        /\ get_thread_summary(result.value) # None
        /\ get_thread_summary(result.value)[1].thread_id = result.value

\* an ingest has just returned the id of a thread it created
C2_Witness ==
    /\ Added
    /\ Len(threads[result.value]) = 1
    /\ get_thread_summary(result.value)[1].message_count = 1

TimelineReturned == result.op = "get_thread_timeline" /\ ~result.raised

\* the timestamp of a record, an absent one counting as 0
TimestampOrZero(eml_data) ==
    LET timestamp == Get(Get(eml_data, "metadata", EmptyDict),
                         "date_timestamp", None)
    IN  IF timestamp = None THEN 0 ELSE timestamp[1]

TimestampsOf(entries) ==
    [i \in 1..Len(entries) |-> TimestampOrZero(entries[i].email_data)]

\* C8: the timeline get_thread_timeline returns holds the thread's entries in
\* ascending order of date_timestamp, whatever the ingestion order was;
\* entries ingested as 100, 300, 250 come out as 100, 250, 300.
C8_TimelineSorted ==
    (TimelineReturned /\ result.arg \in DOMAIN threads) =>
        /\ Len(result.value) = Len(threads[result.arg])
        /\ \A i \in 1..(Len(result.value) - 1) :
               TimestampOrZero(result.value[i].email_data)
                   <= TimestampOrZero(result.value[i + 1].email_data)
        /\ TimestampsOf(threads[result.arg]) = <<100, 300, 250>>
               => TimestampsOf(result.value) = <<100, 250, 300>>

\* the timeline of a thread ingested as 100, 300, 250 has been returned
C8_Witness ==
    /\ TimelineReturned
    /\ result.arg \in DOMAIN threads
    /\ TimestampsOf(threads[result.arg]) = <<100, 300, 250>>
    /\ TimestampsOf(result.value) = <<100, 250, 300>>

\* C9: get_thread_timeline never raises, also for a thread with entries
\* whose date_timestamp is absent or None, and orders those entries as if
\* their timestamp were 0.
C9_TimelineNeverFails ==
    result.op = "get_thread_timeline" =>
        /\ ~result.raised
        /\ \A i \in 1..(Len(result.value) - 1) :
               TimestampOrZero(result.value[i].email_data)
                   <= TimestampOrZero(result.value[i + 1].email_data)

\* what the response_time of a timeline entry is to be when its timestamp is
\* current and its predecessor's is previous, both present
ResponseTimeBetween(previous, current, response_time) ==
    /\ response_time # None
    /\ response_time[1].seconds = current - previous
    /\ response_time[1].is_quick = (current - previous < 3600)
    /\ response_time[1].is_same_day = (current - previous < 86400)

\* C11: in a returned timeline the entry at position 0 has no response_time;
\* an entry at a later position has one exactly when its own and its
\* predecessor's date_timestamp are both present (a timestamp of 0 is
\* present), and then seconds is their difference, is_quick is seconds < 3600
\* and is_same_day is seconds < 86400.
C11_ResponseTimeWhenBothPresent ==
    (TimelineReturned /\ result.value # <<>>) =>
        /\ result.value[1].response_time = None
        /\ \A i \in 2..Len(result.value) :
               LET current == TimestampOf(result.value[i])
                   previous == TimestampOf(result.value[i - 1])
               IN  IF current # None /\ previous # None
                   THEN ResponseTimeBetween(previous[1], current[1],
                                            result.value[i].response_time)
                   ELSE result.value[i].response_time = None

\* the thread_depth values of a thread's classifications
DepthsOf(thread_id) ==
    {threads[thread_id][i].thread_analysis.thread_depth :
        i \in 1..Len(threads[thread_id])}

\* C13: a thread's max_depth never decreases from one ingestion to the next,
\* and it always is the largest thread_depth among the classifications of
\* the thread's entries.
C13_MaxDepthIsMaximum ==
    /\ [](\A thread_id \in DOMAIN threads :
             /\ thread_metadata[thread_id].max_depth \in DepthsOf(thread_id)
             /\ \A depth \in DepthsOf(thread_id) :
                    depth <= thread_metadata[thread_id].max_depth)
    /\ [][\A thread_id \in DOMAIN thread_metadata :
             /\ thread_id \in DOMAIN thread_metadata'
             /\ thread_metadata'[thread_id].max_depth
                    >= thread_metadata[thread_id].max_depth]_vars

\* a message of depth 0 has been ingested into a thread after one of depth 1
C13_Witness ==
    /\ "thread_4895b1d4ed83" \in DOMAIN threads
    /\ Len(threads["thread_4895b1d4ed83"]) = 2
    /\ threads["thread_4895b1d4ed83"][1].thread_analysis.thread_depth = 1
    /\ threads["thread_4895b1d4ed83"][2].thread_analysis.thread_depth = 0
    /\ thread_metadata["thread_4895b1d4ed83"].max_depth = 1

\* the union of the thread_participants of a thread's entries
ParticipantsOf(thread_id) ==
    UNION {threads[thread_id][i].thread_analysis.thread_participants :
              i \in 1..Len(threads[thread_id])}

\* C14: a thread's participants set loses no address from one ingestion to
\* the next, and it always is the union of the thread_participants of the
\* entries ingested into the thread.
C14_ParticipantsIsUnion ==
    /\ [](\A thread_id \in DOMAIN threads :
             thread_metadata[thread_id].participants = ParticipantsOf(thread_id))
    /\ [][\A thread_id \in DOMAIN thread_metadata :
             /\ thread_id \in DOMAIN thread_metadata'
             /\ thread_metadata[thread_id].participants
                    \subseteq thread_metadata'[thread_id].participants]_vars

\* a message from ann to bob has been ingested into a thread after a message
\* that also names cy, and cy still is a participant
C14_Witness ==
    /\ "thread_4895b1d4ed83" \in DOMAIN threads
    /\ Len(threads["thread_4895b1d4ed83"]) = 2
    /\ "cy@corp.org" \in
           threads["thread_4895b1d4ed83"][1].thread_analysis.thread_participants
    /\ "cy@corp.org" \notin
           threads["thread_4895b1d4ed83"][2].thread_analysis.thread_participants
    /\ "cy@corp.org" \in thread_metadata["thread_4895b1d4ed83"].participants

SearchReturned == result.op = "search_threads"

\* the thread's stored subject, or one of its aggregated participant
\* addresses, contains the query, letter case ignored
MatchesQuery(thread_id, query) ==
    \/ Contains(lower(thread_metadata[thread_id].subject), lower(query))
    \/ \E participant \in thread_metadata[thread_id].participants :
           Contains(lower(Spelling[participant]), lower(query))

\* C12: search_threads(query) returns the summaries of exactly the threads
\* whose stored normalized subject or one of whose participant addresses
\* contains the query, compared case-insensitively, each thread once.
C12_SearchExactMatches ==
    SearchReturned =>
        /\ \A i, j \in 1..Len(result.value) :
               result.value[i].thread_id = result.value[j].thread_id => i = j
        /\ {result.value[i].thread_id : i \in 1..Len(result.value)}
               = {thread_id \in DOMAIN threads : MatchesQuery(thread_id, result.arg)}
        /\ \A i \in 1..Len(result.value) :
               get_thread_summary(result.value[i].thread_id) = Some(result.value[i])

\* the search for "corp" over two threads returned the one thread that has
\* Cy@Corp.org among its participants
C12_Witness ==
    /\ SearchReturned
    /\ result.arg = <<"c", "o", "r", "p">>
    /\ Cardinality(DOMAIN threads) = 2
    /\ Len(result.value) = 1
    /\ result.value[1].thread_id = "thread_7694f4a66316"
    /\ "Cy@Corp.org" \in result.value[1].participants

Lookups == {"get_thread_summary", "get_thread_timeline"}

\* C19: for a thread_id no ingest has returned, get_thread_summary returns
\* None and get_thread_timeline returns the empty list; neither raises, and
\* neither creates a thread or changes the registry.
C19_UnknownThreadLookups ==
    /\ []((result.op \in Lookups /\ result.arg \notin DOMAIN threads) =>
             /\ ~result.raised
             /\ result.op = "get_thread_summary" => result.value = None
             /\ result.op = "get_thread_timeline" => result.value = <<>>)
    /\ [][(result'.op \in Lookups /\ result'.arg \notin DOMAIN threads) =>
             /\ threads' = threads
             /\ thread_metadata' = thread_metadata]_vars

\* the timeline of an id the registry does not know has been asked for
\* while the registry holds another thread
C19_Witness ==
    /\ result.op = "get_thread_timeline"
    /\ result.arg \notin DOMAIN threads
    /\ DOMAIN threads # {}
    /\ ~result.raised
    /\ result.value = <<>>

\* C20 as stated: in a non-empty timeline is_root is true for the first
\* entry and false for every other entry, whatever the classifier said.
C20_RootIsFirstPosition ==
    (TimelineReturned /\ result.value # <<>>) =>
        \A i \in 1..Len(result.value) : result.value[i].is_root = (i = 1)

\* C20 amended: in a timeline is_root of an entry is the classifier's is_root
\* of that entry's message, true exactly when the message has neither an
\* In-Reply-To nor References, whatever the entry's position is.
C20_RootIsClassifiedRoot ==
    TimelineReturned =>
        \A i \in 1..Len(result.value) :
            LET metadata == Get(result.value[i].email_data, "metadata", EmptyDict)
            IN  result.value[i].is_root
                    = (/\ ~BoolStr(Get(metadata, "in_reply_to", None))
                       /\ Get(metadata, "references", <<>>) = <<>>)

\* a timeline has been returned whose first entry is a reply and whose
\* second entry is the root message
C20_Witness ==
    /\ TimelineReturned
    /\ Len(result.value) = 2
    /\ ~result.value[1].is_root
    /\ result.value[1].thread_analysis.is_reply
    /\ result.value[2].is_root

\* the thread holds an entry classified is_root
HasRoot(thread_id) ==
    \E i \in 1..Len(threads[thread_id]) :
        threads[thread_id][i].thread_analysis.is_root

\* the first entry of the thread that is classified is_root
FirstRoot(thread_id) ==
    LET thread_emails == threads[thread_id]
    IN  thread_emails[CHOOSE i \in 1..Len(thread_emails) :
                          /\ thread_emails[i].thread_analysis.is_root
                          /\ \A j \in 1..(i - 1) :
                                 ~thread_emails[j].thread_analysis.is_root]

\* C21: once an entry classified is_root has been ingested into a thread,
\* root_message_id is the message-id of the first such entry, whatever has
\* been ingested into the thread after it.
C21_RootMessageIdSetOnce ==
    \A thread_id \in DOMAIN threads :
        HasRoot(thread_id) =>
            thread_metadata[thread_id].root_message_id
                = Get(Get(FirstRoot(thread_id).email_data, "metadata", EmptyDict),
                      "message_id", None)

\* the parsed Dates of a thread's entries
DatesOf(thread_id) ==
    {TimestampOf(threads[thread_id][i])[1] :
        i \in {j \in 1..Len(threads[thread_id]) :
                  TimestampOf(threads[thread_id][j]) # None}}

C24_SubjectAndCreatedFixed ==
    /\ [](\A thread_id \in DOMAIN threads :
             /\ thread_metadata[thread_id].subject
                    = _normalize_subject(
                          Get(Get(Get(threads[thread_id][1].email_data,
                                      "headers", EmptyDict),
                                  "common", EmptyDict),
                              "subject", <<>>))
             /\ thread_metadata[thread_id].created
                    <= threads[thread_id][1].added_at
             /\ \A other \in DOMAIN threads :
                    thread_metadata[other].created < thread_metadata[thread_id].created
                        => threads[other][1].added_at
                               <= thread_metadata[thread_id].created)
    /\ [][\A thread_id \in DOMAIN thread_metadata :
             /\ thread_id \in DOMAIN thread_metadata'
             /\ thread_metadata'[thread_id].subject
                    = thread_metadata[thread_id].subject
             /\ thread_metadata'[thread_id].created
                    = thread_metadata[thread_id].created]_vars

\* a message whose subject normalizes to "a@x" has been ingested into the
\* thread that the message "Hi" created, and the subject still is "hi"
C24_Witness ==
    /\ "thread_4895b1d4ed83" \in DOMAIN threads
    /\ Len(threads["thread_4895b1d4ed83"]) = 2
    /\ threads["thread_4895b1d4ed83"][1].thread_analysis.subject_thread.normalized
           = <<"h", "i">>
    /\ threads["thread_4895b1d4ed83"][2].thread_analysis.subject_thread.normalized
           = <<"a", "@", "x">>
    /\ thread_metadata["thread_4895b1d4ed83"].subject = <<"h", "i">>
    /\ thread_metadata["thread_4895b1d4ed83"].created
           < threads["thread_4895b1d4ed83"][2].added_at

\* the sum of the engagement scores of the classifications made at ingest
ClassifiedScoreTotal(thread_emails) ==
    SumSeq([i \in 1..Len(thread_emails) |->
               thread_emails[i].thread_analysis.engagement_indicators.engagement_score])

\* C23: the avg_engagement_score of a thread summary (in hundredths) is the
\* mean of the engagement scores of the classifications stored with the
\* thread's entries, to the two decimals the summary keeps, whether or not
\* the ingested records carry a thread_analysis field of their own.
C23_AverageIsMeanOfClassifiedScores ==
    (result.op = "get_thread_summary" /\ result.value # None) =>
        LET thread_emails == threads[result.arg]
            average == result.value[1].engagement.avg_engagement_score
            difference == average * Len(thread_emails)
                              - 100 * ClassifiedScoreTotal(thread_emails)
        IN  /\ 2 * difference <= Len(thread_emails)
            /\ -2 * difference <= Len(thread_emails)

\* the operations that read the registry
Reads ==
    {"get_thread_summary", "get_all_threads", "search_threads",
     "get_thread_timeline"}

\* C26: get_thread_summary, get_all_threads, search_threads and
\* get_thread_timeline leave every thread's entry sequence, its order
\* included, and every thread's metadata as they were; the registry changes
\* only in a step of add_email_to_thread.
C26_OnlyIngestMutates ==
    /\ [][result'.op \in Reads =>
             /\ threads' = threads
             /\ thread_metadata' = thread_metadata]_vars
    /\ [][(threads' # threads \/ thread_metadata' # thread_metadata) =>
             result'.op = "add_email_to_thread"]_vars

\* the timeline of a thread stored out of chronological order has been
\* returned in chronological order and the stored order is as ingested
C26_Witness ==
    /\ result.op = "get_thread_timeline"
    /\ ~result.raised
    /\ result.arg \in DOMAIN threads
    /\ TimestampsOf(threads[result.arg]) = <<300, 250>>
    /\ TimestampsOf(result.value) = <<250, 300>>

\* C27: for every known thread get_thread_timeline returns a permutation of
\* the thread's stored entries: as many as message_count, each stored entry
\* once, position 1..N in result order and is_latest for the last entry
\* only.
C27_TimelineIsPermutation ==
    (result.op = "get_thread_timeline" /\ result.arg \in DOMAIN threads) =>
        /\ ~result.raised
        /\ Len(result.value) = thread_metadata[result.arg].message_count
        /\ \E p \in [1..Len(result.value) -> 1..Len(threads[result.arg])] :
               /\ \A i, j \in DOMAIN p : p[i] = p[j] => i = j
               /\ \A i \in DOMAIN p :
                      /\ result.value[i].email_data
                             = threads[result.arg][p[i]].email_data
                      /\ result.value[i].thread_analysis
                             = threads[result.arg][p[i]].thread_analysis
        /\ \A i \in 1..Len(result.value) :
               /\ result.value[i].position = i
               /\ result.value[i].is_latest = (i = Len(result.value))

\* C28: an add_email_to_thread that returns thread T appends one entry, made
\* of the ingested record, at the end of T's list; the earlier entries of T,
\* the entries and the metadata of every other thread are as before, no
\* thread is removed, and T is new only if it was unknown.
C28_IngestAppendsOneEntry ==
    /\ [][(threads' # threads \/ thread_metadata' # thread_metadata
           \/ (result'.op = "add_email_to_thread" /\ ~result'.raised)) =>
             /\ result'.op = "add_email_to_thread"
             /\ ~result'.raised
             /\ LET T == result'.value
                    before == IF T \in DOMAIN threads THEN threads[T] ELSE <<>>
                IN  /\ DOMAIN threads' = DOMAIN threads \cup {T}
                    /\ DOMAIN thread_metadata' = DOMAIN thread_metadata \cup {T}
                    /\ Len(threads'[T]) = Len(before) + 1
                    /\ SubSeq(threads'[T], 1, Len(before)) = before
                    /\ threads'[T][Len(before) + 1].email_data = result'.arg
                    /\ \A other \in DOMAIN threads \ {T} :
                           /\ threads'[other] = threads[other]
                           /\ thread_metadata'[other] = thread_metadata[other]]_vars
    /\ [][DOMAIN threads \subseteq DOMAIN threads']_vars

\* a second message has been added to one thread while another thread exists
C28_Witness ==
    /\ result.op = "add_email_to_thread"
    /\ ~result.raised
    /\ Cardinality(DOMAIN threads) = 2
    /\ Len(threads[result.value]) = 2
    /\ threads[result.value][2].email_data = result.arg
    /\ threads[result.value][1].email_data # result.arg

\* the gaps a returned timeline reports, in seconds
TimelineGaps(timeline) ==
    LET reported == SelectSeq(timeline, LAMBDA e : e.response_time # None)
    IN  [i \in 1..Len(reported) |-> reported[i].response_time[1].seconds]

\* C30: the avg_response_time of a thread summary is the mean, formatted as
\* a duration, of the gaps between chronologically consecutive messages
\* that the thread's timeline reports; no gap is negative, and the value is
\* None only when the timeline reports no gap.
C30_AvgResponseTimeIsMeanOfTimelineGaps ==
    (/\ result.op = "get_thread_summary"
     /\ result.value # None
     /\ ~get_thread_timeline(result.arg).raised) =>
        LET gaps == TimelineGaps(get_thread_timeline(result.arg).value)
        IN  /\ \A i \in 1..Len(gaps) : gaps[i] >= 0
            /\ result.value[1].engagement.avg_response_time
                   = IF gaps = <<>>
                     THEN None
                     ELSE Some(_format_duration(SumSeq(gaps), Len(gaps)))

(***************************************************************************)
(* Claims about thread identity (SpecThreadId)                             *)
(***************************************************************************)
\* a header value is carried: stored and not the empty string
Carries(eml_data, key) == BoolStr(Get(eml_data.metadata, key, None))

ReferencesOf(eml_data) == Get(eml_data.metadata, "references", <<>>)

SubjectOf(eml_data) == Get(eml_data.headers.common, "subject", <<>>)

\* C3: the thread_id is "thread_" followed by hash12 of the first of
\* in_reply_to, references[0], message_id, normalize_subject(subject) that
\* the message has, in this order.
C3_ThreadIdPriority ==
    \A k \in 1..Len(output) :
        LET m == input[k]
        IN  /\ Carries(m, "in_reply_to")
                => output[k] = "thread_" \o _hash_string(m.metadata.in_reply_to[1])
            /\ ~Carries(m, "in_reply_to") /\ ReferencesOf(m) # <<>>
                => output[k] = "thread_" \o _hash_string(ReferencesOf(m)[1])
            /\ ~Carries(m, "in_reply_to") /\ ReferencesOf(m) = <<>>
               /\ Carries(m, "message_id")
                => output[k] = "thread_" \o _hash_string(m.metadata.message_id[1])
            /\ ~Carries(m, "in_reply_to") /\ ReferencesOf(m) = <<>>
               /\ ~Carries(m, "message_id")
                => output[k] = "thread_" \o _hash_string(
                                   Str(_normalize_subject(SubjectOf(m))))

\* a message with References and a Message-ID but no In-Reply-To got its id
C3_Witness ==
    /\ Len(output) >= 1
    /\ ~Carries(input[1], "in_reply_to")
    /\ ReferencesOf(input[1]) = <<"b@x", "a@x">>
    /\ Carries(input[1], "message_id")
    /\ output[1] = "thread_205111a56270"

\* C4: two messages that carry the same In-Reply-To value get the same
\* thread_id, whatever their other headers are.
C4_SameInReplyToSameThread ==
    (/\ Len(output) = 2
     /\ Carries(input[1], "in_reply_to")
     /\ Carries(input[2], "in_reply_to")
     /\ input[1].metadata.in_reply_to = input[2].metadata.in_reply_to)
        => output[1] = output[2]

\* both ids are computed for two replies to a@x that differ in subject,
\* References and Message-ID
C4_Witness ==
    /\ Len(output) = 2
    /\ Get(input[1].metadata, "in_reply_to", None) = Some("a@x")
    /\ Get(input[2].metadata, "in_reply_to", None) = Some("a@x")
    /\ SubjectOf(input[1]) # SubjectOf(input[2])
    /\ ReferencesOf(input[1]) # ReferencesOf(input[2])
    /\ Get(input[1].metadata, "message_id", None)
           # Get(input[2].metadata, "message_id", None)

SameNormalizedSubject ==
    _normalize_subject(SubjectOf(input[1])) = _normalize_subject(SubjectOf(input[2]))

NoThreadHeaders(eml_data) ==
    ~Carries(eml_data, "in_reply_to") /\ ReferencesOf(eml_data) = <<>>

\* C5 as stated: two messages without In-Reply-To and References whose
\* subjects normalize to the same string get the same thread_id.
C5_SameSubjectSameThread ==
    (/\ Len(output) = 2
     /\ NoThreadHeaders(input[1])
     /\ NoThreadHeaders(input[2])
     /\ SameNormalizedSubject)
        => output[1] = output[2]

\* C5 amended: two messages without In-Reply-To, References and Message-ID
\* whose subjects _normalize_subject maps to the same string get the same
\* thread_id.
C5_SameSubjectNoMessageId ==
    (/\ Len(output) = 2
     /\ NoThreadHeaders(input[1])
     /\ NoThreadHeaders(input[2])
     /\ ~Carries(input[1], "message_id")
     /\ ~Carries(input[2], "message_id")
     /\ SameNormalizedSubject)
        => output[1] = output[2]

\* both ids are computed for "Re: Hi" and "RE:hi ", neither message having
\* an In-Reply-To, References or Message-ID
C5_Witness ==
    /\ Len(output) = 2
    /\ NoThreadHeaders(input[1])
    /\ NoThreadHeaders(input[2])
    /\ ~Carries(input[1], "message_id")
    /\ ~Carries(input[2], "message_id")
    /\ SubjectOf(input[1]) = SubjectReHi
    /\ SubjectOf(input[2]) = SubjectREhi
    /\ output[1] = "thread_49f68a5c8493"

(***************************************************************************)
(* Claims about subject analysis (SpecSubject)                             *)
(***************************************************************************)
SubjectPrefixes == {re_, fw_, fwd_, aw_}

ReReFwQuarterlyReport ==
    <<"R", "e", ":", " ">> \o <<"R", "e", ":", " ">> \o <<"F", "w", ":", " ">>
    \o QuarterlyReport

\* C6: the normalized subject is lower-cased and trimmed and starts with none
\* of re:, fw:, fwd:, aw:; "Re: Re: Fw: Quarterly Report" normalizes to
\* "quarterly report".
C6_NormalizeStripsEveryPrefix ==
    output # None =>
        LET normalized == output[1].normalized
        IN  /\ normalized = strip(lower(normalized))
            /\ \A prefix \in SubjectPrefixes : ~startswith(normalized, prefix)
            /\ input = ReReFwQuarterlyReport
                   => normalized = lower(QuarterlyReport)

\* the number of prefixes _normalize_subject strips from a subject
StripsOfNormalize(subject) ==
    IF subject = <<>>
    THEN 0
    ELSE StripLoop(strip(lower(subject)), 0, NormalizePrefixes).count

\* C7: prefix_count is the number of prefixes _normalize_subject strips;
\* it is 3 for "Re: Re: Fw: Quarterly Report".
C7_CountEqualsStrips ==
    output # None =>
        /\ output[1].prefix_count = StripsOfNormalize(input)
        /\ input = ReReFwQuarterlyReport => output[1].prefix_count = 3

(***************************************************************************)
(* Claims about analyze_thread (SpecAnalyze)                               *)
(***************************************************************************)
\* C10: analyze_thread returns a classification, and raises nothing, for
\* every record, a record whose body text or html is None included.
C10_AnalyzeNeverRaises ==
    output # None => ~output[1].raised

\* the distinct addresses of the To, Cc and Bcc headers taken together
DistinctRecipients(eml_data) ==
    LET headers == Get(Get(eml_data, "headers", EmptyDict), "common", EmptyDict)
    IN  UNION {_extract_email_addresses(Get(headers, field, <<>>)) :
                  field \in {"to", "cc", "bcc"}}

\* C16: recipient_count is the number of distinct addresses across To, Cc and
\* Bcc together; an address named in two of these headers counts once.
C16_RecipientsCountedOnce ==
    (output # None /\ ~output[1].raised) =>
        output[1].value.engagement_indicators.recipient_count
            = Cardinality(DistinctRecipients(input))

(***************************************************************************)
(* Claims about the engagement score (SpecScore)                           *)
(***************************************************************************)
\* C15: engagement_score is the content-length band (> 1000: 40, > 500: 30,
\* > 100: 20, else 10) plus the recipient-count band (> 10: 30, > 5: 20,
\* > 1: 15, else 10) plus 30 for an attachment, and lies in 0..100; 1500
\* characters, 3 recipients and an attachment score 85.
C15_ScoreIsSumOfBands ==
    output # None =>
        LET length == input.content_length
            recipients == input.recipient_count
            content_band == IF length > 1000 THEN 40
                            ELSE IF length > 500 THEN 30
                            ELSE IF length > 100 THEN 20
                            ELSE 10
            recipient_band == IF recipients > 10 THEN 30
                              ELSE IF recipients > 5 THEN 20
                              ELSE IF recipients > 1 THEN 15
                              ELSE 10
            attachment_band == IF input.has_attachments THEN 30 ELSE 0
        IN  /\ output[1] = content_band + recipient_band + attachment_band
            /\ output[1] \in 0..100
            /\ (length = 1500 /\ recipients = 3 /\ input.has_attachments)
                   => output[1] = 85

\* the score of 1500 characters, 3 recipients and an attachment is computed
C15_Witness ==
    /\ input = [content_length |-> 1500, recipient_count |-> 3,
                has_attachments |-> TRUE]
    /\ output = Some(85)

(***************************************************************************)
(* Claims about the thread depth (SpecDepth)                               *)
(***************************************************************************)
\* C17: thread_depth is the number of References entries, capped at 15: 0
\* without a References header, never above 15, and 15 for 20 entries.
C17_DepthIsCappedCount ==
    output # None =>
        LET count == IF "references" \in DOMAIN input
                     THEN Len(input["references"])
                     ELSE 0
        IN  /\ output[1] = IF count <= 15 THEN count ELSE 15
            /\ "references" \notin DOMAIN input => output[1] = 0
            /\ output[1] <= 15
            /\ count = 20 => output[1] = 15

\* the depth of a message with 20 References entries is computed
C17_Witness ==
    /\ "references" \in DOMAIN input
    /\ Len(input["references"]) = 20
    /\ output = Some(15)

(***************************************************************************)
(* Claims about the duration format (SpecDuration)                         *)
(***************************************************************************)
\* C18: _format_duration of s >= 0 seconds is "{s}s" below 60, "{s div 60}m"
\* below 3600, "{s div 3600}h" below 86400 and "{s div 86400}d" from there
\* on, the number truncated to an integer; 150 seconds give "2m".
C18_DurationFormat ==
    output # None =>
        LET num == input.num
            den == input.den
        IN  /\ num < 60 * den => output[1] = ToString(num \div den) \o "s"
            /\ (60 * den <= num /\ num < 3600 * den)
                   => output[1] = ToString(num \div (60 * den)) \o "m"
            /\ (3600 * den <= num /\ num < 86400 * den)
                   => output[1] = ToString(num \div (3600 * den)) \o "h"
            /\ 86400 * den <= num
                   => output[1] = ToString(num \div (86400 * den)) \o "d"
            /\ (num = 150 /\ den = 1) => output[1] = "2m"

\* 150 seconds are formatted
C18_Witness ==
    /\ input = [num |-> 150, den |-> 1]
    /\ output = Some("2m")


(***************************************************************************)
(* Claims about the processor (SpecProcessor)                              *)
(***************************************************************************)
\* C29: a parse_eml_content call that raises raises ValueError and leaves
\* the registry exactly as it was: no entry appended, no thread created, no
\* metadata changed; a call that returns has added exactly one entry, the
\* record it returns, at the end of the thread whose id the record reports,
\* and nothing else.
C29_FailedParseLeavesRegistry ==
    [][result'.op = "parse_eml_content" =>
         IF result'.raised
         THEN /\ result'.error = "ValueError"
              /\ threads' = threads
              /\ thread_metadata' = thread_metadata
         ELSE LET T == result'.value.thread_id
                  before == IF T \in DOMAIN threads THEN threads[T] ELSE <<>>
              IN  /\ DOMAIN threads' = DOMAIN threads \cup {T}
                  /\ DOMAIN thread_metadata' = DOMAIN threads'
                  /\ Len(threads'[T]) = Len(before) + 1
                  /\ SubSeq(threads'[T], 1, Len(before)) = before
                  /\ threads'[T][Len(before) + 1].email_data = result'.value
                  /\ thread_metadata'[T].message_count = Len(before) + 1
                  /\ \A other \in DOMAIN threads \ {T} :
                         /\ threads'[other] = threads[other]
                         /\ thread_metadata'[other] = thread_metadata[other]]_vars

\* a message without an HTML part has been refused for its classification
\* error while the registry holds a thread, and that message would have
\* started a thread of its own
C29_Witness ==
    /\ result.op = "parse_eml_content"
    /\ result.raised
    /\ result.arg.type = "str"
    /\ DOMAIN threads # {}
    /\ _generate_thread_id(BaseEmailData(result.arg)) \notin DOMAIN threads


(***************************************************************************)
(* Claims about the server (SpecServer)                                    *)
(***************************************************************************)
\* the positions inside the classify, append and update of a request
Ingesting ==
    {"parse_eml_content", "add_email_to_thread", "_update_thread_metadata",
     "json_response"}

\* the requests answered with the record of a message of the thread
Processed(thread_id) ==
    {r \in Requests :
        /\ output[r] # None
        /\ output[r][1].status = 200
        /\ output[r][1].thread_id = thread_id}

\* C25: with any number of /api/process requests in flight, at most one
\* request is inside its classify, append and update at a time, and no
\* other handler runs meanwhile; what /api/threads reads is a registry in
\* which every message_count is the number of entries; and once every
\* request is answered, every thread's entries are as many as the requests
\* answered with a message of that thread, and so is its message_count.
C25_RequestsAreSerialized ==
    /\ Cardinality({r \in Requests : input[r].pc \in Ingesting}) <= 1
    /\ result.op = "get_all_threads" =>
           \A i \in 1..Len(result.value) :
               result.value[i].message_count
                   = result.value[i].engagement.total_messages
    /\ (\A r \in Requests : input[r].pc \in Suspended) =>
           \A thread_id \in DOMAIN threads :
               /\ Len(threads[thread_id]) = Cardinality(Processed(thread_id))
               /\ thread_metadata[thread_id].message_count
                      = Cardinality(Processed(thread_id))
    /\ \A r \in Requests :
           (output[r] # None /\ output[r][1].status = 200) =>
               output[r][1].thread_id \in DOMAIN threads

\* one request is between its append and its update while another request,
\* answered before, has a message in the same thread and a third awaits its
\* body
C25_Witness ==
    \E r, q, w \in Requests :
        /\ input[r].pc = "_update_thread_metadata"
        /\ input[q].pc = "done"
        /\ input[w].pc = "request.json"
        /\ output[q] # None
        /\ output[q][1].status = 200
        /\ output[q][1].thread_id = input[r].thread_analysis.thread_id
        /\ Len(threads[output[q][1].thread_id]) = 2

====
